---------------------------- MODULE Spec2Model ----------------------------
(***************************************************************************)
(* Model of locust/skynet_search.py: the task set SkynetSearchTasks (the   *)
(* hooks on_start/on_stop, the stubs login/logout and the weighted task    *)
(* search) and the simulated user class SkynetSearchUser (task_set, host,  *)
(* min_wait, max_wait), driven by the load-testing harness.                *)
(*                                                                         *)
(* Conventions.  Python strings that are ASCII are TLA+ strings; the three *)
(* Chinese literals are the sequences of their Unicode code points.  The   *)
(* two float literals are integers in units of 10^-6 degree (38.021019 is  *)
(* 38021019).  Python's None and the outcomes of a request call are        *)
(* records with the fields kind and status.                                *)
(***************************************************************************)
EXTENDS Integers, Sequences, FiniteSets, TLC

\* ------------------------------------------------------------------ bounds
NumUsers == 2
MaxSearches == 2
MaxCalls == 5
WaitStep == 4500

Users == 1..NumUsers

\* --------------------------------------------------------- Python values
None == [kind |-> "None", status |-> 0]

\* What self.client.post can produce: a returned response (2xx, non-2xx, or
\* the status-0 response of a failed connection) or a raised error.
Outcomes ==
    { [kind |-> "response", status |-> 200],
      [kind |-> "response", status |-> 500],
      [kind |-> "raised",   status |-> 0] }

\* ------------------------------------------------- literals of the source
\* path with two letters transposed.
path_typo == "/skynet/api/domain/serach"

path == "/skynet/api/domain/search"

\* payload with the district entry left out.
payload_noDistrict ==
    [ province  |-> <<27827, 21271, 30465>>,
      city      |-> <<30707, 23478, 24196, 24066>>,
      latitude  |-> 38021019,
      longitude |-> 114435741 ]

payload ==
    [ province  |-> <<27827, 21271, 30465>>,
      city      |-> <<30707, 23478, 24196, 24066>>,
      district  |-> <<26725, 35199, 21306>>,
      latitude  |-> 38021019,
      longitude |-> 114435741 ]

\* SkynetSearchTasks with login decorated as a task as well.
SkynetSearchTasks_loginTask ==
    [ name    |-> "SkynetSearchTasks",
      methods |-> {"on_start", "login", "on_stop", "logout", "search"},
      tasks   |-> [search |-> 10, login |-> 1] ]

\* class SkynetSearchTasks(TaskSet): its methods, and the task weights that
\* the @task decorator records.
SkynetSearchTasks ==
    [ name    |-> "SkynetSearchTasks",
      methods |-> {"on_start", "login", "on_stop", "logout", "search"},
      tasks   |-> [search |-> 10] ]

\* SkynetSearchUser with the two wait bounds exchanged.
SkynetSearchUser_swapped ==
    [ task_set |-> "SkynetSearchTasks",
      host     |-> "https://www.video110.cn:8030",
      min_wait |-> 10000,
      max_wait |-> 1000 ]

\* class SkynetSearchUser(HttpLocust): its class attributes.
SkynetSearchUser ==
    [ task_set |-> "SkynetSearchTasks",
      host     |-> "https://www.video110.cn:8030",
      min_wait |-> 1000,
      max_wait |-> 10000 ]

\* The value of --host on the harness's command line ("" when not given).
NoHost == ""
HostOptions == {NoHost, "http://127.0.0.1:8030"}

NoCalls == [on_start |-> 0, login |-> 0, on_stop |-> 0, logout |-> 0, search |-> 0]

\* ------------------------------------------------------------------ state
VARIABLES
    locust,      \* attributes of SkynetSearchUser
    taskset,     \* SkynetSearchTasks as the harness sees it
    cmdHost,     \* --host of the command line
    requests,    \* requests[u]: the requests issued through u's client
    calls,       \* calls[u][m]: how often method m ran for user u
    outcome,     \* outcome[u]: what the last request call of u produced
    ret,         \* ret[u]: how the last method the harness ran for u ended
    pc,          \* pc[u]: where the harness is in u's life cycle
    lastTask,    \* lastTask[u]: the task the harness selected last for u
    lastWait     \* lastWait[u]: the delay the harness chose last for u

progVars == <<locust, taskset, cmdHost, requests, calls, outcome, ret>>
vars == <<locust, taskset, cmdHost, requests, calls, outcome, ret, pc, lastTask, lastWait>>

\* The program state as one value, so that methods compose as functions.
S ==
    [ locust |-> locust, taskset |-> taskset, cmdHost |-> cmdHost,
      requests |-> requests, calls |-> calls, outcome |-> outcome, ret |-> ret ]

Apply(s) ==
    /\ locust' = s.locust
    /\ taskset' = s.taskset
    /\ cmdHost' = s.cmdHost
    /\ requests' = s.requests
    /\ calls' = s.calls
    /\ outcome' = s.outcome
    /\ ret' = s.ret

\* Entering method m of user u's task set.
enter(s, u, m) == [s EXCEPT !.calls[u][m] = @ + 1]

\* ------------------------------------------------------------ the methods
\* self.client.post(p, data): the harness's client addresses the request to
\* the effective host followed by p, and produces outcome o.
base_url(s) == IF s.cmdHost # NoHost THEN s.cmdHost ELSE s.locust.host

post(s, u, p, data, o) ==
    [s EXCEPT !.requests[u] =
                  Append(@, [method |-> "POST", path |-> p,
                             url |-> base_url(s) \o p, data |-> data]),
              !.outcome[u] = o]

\* login that signs in with a request of its own.
login_posts(s, u) ==
    [post(enter(s, u, "login"), u, "/skynet/api/login", payload, None)
        EXCEPT !.ret[u] = None]

\* def login(self): pass
login(s, u) == [enter(s, u, "login") EXCEPT !.ret[u] = None]

\* def logout(self): pass
logout(s, u) == [enter(s, u, "logout") EXCEPT !.ret[u] = None]

\* on_start that calls logout in place of login.
on_start_logout(s, u) == logout(enter(s, u, "on_start"), u)

\* def on_start(self): self.login()
on_start(s, u) == login(enter(s, u, "on_start"), u)

\* on_stop that resets the wait bounds of the user class.
on_stop_rewrites(s, u) ==
    [logout(enter(s, u, "on_stop"), u)
        EXCEPT !.locust.min_wait = 5000, !.locust.max_wait = 15000]

\* def on_stop(self): self.logout()
on_stop(s, u) == logout(enter(s, u, "on_stop"), u)

\* search that issues the request twice.
search_twice(s, u, o) ==
    LET s1 == post(enter(s, u, "search"), u, path, payload, o)
        s2 == post(s1, u, path, payload, o)
    IN  [s2 EXCEPT !.ret[u] = IF o.kind = "raised" THEN o ELSE None]

\* search that swallows the error of the request call.
search_catches(s, u, o) ==
    LET s1 == post(enter(s, u, "search"), u, path, payload, o)
    IN  [s1 EXCEPT !.ret[u] = None]

\* search whose payload depends on the user that sends it.
search_perUser(s, u, o) ==
    LET data == [payload EXCEPT !.latitude = @ + u]
        s1 == post(enter(s, u, "search"), u, path, data, o)
    IN  [s1 EXCEPT !.ret[u] = IF o.kind = "raised" THEN o ELSE None]

\* @task(10) def search(self): self.client.post(path, {...})
\* The value of the call is dropped: search ends with None unless the call
\* raised, and then the error propagates to the caller.
search(s, u, o) ==
    LET s1 == post(enter(s, u, "search"), u, path, payload, o)
    IN  [s1 EXCEPT !.ret[u] = IF o.kind = "raised" THEN o ELSE None]

\* Running the method named m (the harness calls the function it selected).
execute(s, u, m, o) ==
    CASE m = "search"   -> search(s, u, o)
      [] m = "login"    -> login(s, u)
      [] m = "logout"   -> logout(s, u)
      [] m = "on_start" -> on_start(s, u)
      [] m = "on_stop"  -> on_stop(s, u)

\* ------------------------------------------------------------ the harness
\* The tasks the harness can select: those with a positive weight.
TaskChoices(ts) == {t \in DOMAIN ts.tasks : ts.tasks[t] > 0}

\* The delays the harness can choose: min_wait, min_wait + WaitStep, ...
\* up to max_wait (a sample of the integers from min_wait to max_wait).
WaitTimes(l) ==
    {l.min_wait + k * WaitStep : k \in 0..((l.max_wait - l.min_wait) \div WaitStep)}

Init ==
    /\ locust = SkynetSearchUser
    /\ taskset = SkynetSearchTasks
    /\ cmdHost \in HostOptions
    /\ requests = [u \in Users |-> <<>>]
    /\ calls = [u \in Users |-> NoCalls]
    /\ outcome = [u \in Users |-> None]
    /\ ret = [u \in Users |-> None]
    /\ pc = [u \in Users |-> "new"]
    /\ lastTask = [u \in Users |-> "none"]
    /\ lastWait = [u \in Users |-> 0]

\* The harness starts user u: it runs the on_start hook.
Start(u) ==
    /\ pc[u] = "new"
    /\ "on_start" \in taskset.methods
    /\ Apply(on_start(S, u))
    /\ pc' = [pc EXCEPT ![u] = "ready"]
    /\ UNCHANGED <<lastTask, lastWait>>

\* The harness selects a task by weight and runs it.
RunTask(u) ==
    /\ pc[u] = "ready"
    /\ calls[u].search < MaxSearches
    /\ \E t \in TaskChoices(taskset) : \E o \in Outcomes :
          /\ Apply(execute(S, u, t, o))
          /\ lastTask' = [lastTask EXCEPT ![u] = t]
    /\ pc' = [pc EXCEPT ![u] = "wait"]
    /\ UNCHANGED lastWait

\* The harness pauses user u between two tasks.
Wait(u) ==
    /\ pc[u] = "wait"
    /\ \E d \in WaitTimes(locust) : lastWait' = [lastWait EXCEPT ![u] = d]
    /\ pc' = [pc EXCEPT ![u] = "ready"]
    /\ UNCHANGED <<progVars, lastTask>>

\* The harness stops user u: it runs the on_stop hook.
Stop(u) ==
    /\ pc[u] \in {"ready", "wait"}
    /\ "on_stop" \in taskset.methods
    /\ Apply(on_stop(S, u))
    /\ pc' = [pc EXCEPT ![u] = "stopped"]
    /\ UNCHANGED <<lastTask, lastWait>>

Next == \E u \in Users : Start(u) \/ RunTask(u) \/ Wait(u) \/ Stop(u)

Spec == Init /\ [][Next]_vars

\* ------------------------------------- the methods called in any order
RECURSIVE SumOver(_, _)
SumOver(f, us) ==
    IF us = {} THEN 0
    ELSE LET u == CHOOSE x \in us : TRUE IN f[u] + SumOver(f, us \ {u})

\* The number of method runs so far, over all users.
TotalCalls ==
    SumOver([u \in Users |-> calls[u].on_start + calls[u].login + calls[u].on_stop
                                 + calls[u].logout + calls[u].search], Users)

CallOnStart(u) ==
    /\ TotalCalls < MaxCalls
    /\ Apply(on_start(S, u))
    /\ UNCHANGED <<pc, lastTask, lastWait>>

CallLogin(u) ==
    /\ TotalCalls < MaxCalls
    /\ Apply(login(S, u))
    /\ UNCHANGED <<pc, lastTask, lastWait>>

CallSearch(u) ==
    /\ TotalCalls < MaxCalls
    /\ \E o \in Outcomes : Apply(search(S, u, o))
    /\ UNCHANGED <<pc, lastTask, lastWait>>

CallOnStop(u) ==
    /\ TotalCalls < MaxCalls
    /\ Apply(on_stop(S, u))
    /\ UNCHANGED <<pc, lastTask, lastWait>>

CallLogout(u) ==
    /\ TotalCalls < MaxCalls
    /\ Apply(logout(S, u))
    /\ UNCHANGED <<pc, lastTask, lastWait>>

NextAny ==
    \E u \in Users :
        CallOnStart(u) \/ CallLogin(u) \/ CallSearch(u) \/ CallOnStop(u) \/ CallLogout(u)

SpecAny == Init /\ [][NextAny]_vars

\* ------------------------------------------------------------- properties
\* The literals the requests are expected to carry.
FixedPath == "/skynet/api/domain/search"
FixedHost == "https://www.video110.cn:8030"
FixedKeys == {"province", "city", "district", "latitude", "longitude"}

IsFixedPayload(d) ==
    /\ DOMAIN d = FixedKeys
    /\ d.province = <<27827, 21271, 30465>>
    /\ d.city = <<30707, 23478, 24196, 24066>>
    /\ d.district = <<26725, 35199, 21306>>
    /\ d.latitude = 38021019
    /\ d.longitude = 114435741

Searched(u) == calls'[u].search = calls[u].search + 1

Failed(o) == o.kind = "raised" \/ (o.kind = "response" /\ o.status \notin 200..299)

TotalRequests == SumOver([u \in Users |-> Len(requests[u])], Users)
TotalSearches == SumOver([u \in Users |-> calls[u].search], Users)

\* C1: every invocation of search issues exactly one request, a POST to
\* /skynet/api/domain/search with the fixed payload, through the invoking
\* user's client and nothing else; so each user's requests number exactly
\* that user's search invocations (n invocations, n requests).
C1_OneRequestPerSearch ==
    [][ /\ \A u \in Users :
             Searched(u) =>
                /\ Len(requests'[u]) = Len(requests[u]) + 1
                /\ SubSeq(requests'[u], 1, Len(requests[u])) = requests[u]
                /\ LET r == requests'[u][Len(requests'[u])]
                   IN  /\ r.method = "POST"
                       /\ r.path = FixedPath
                       /\ IsFixedPayload(r.data)
                /\ \A v \in Users \ {u} : requests'[v] = requests[v]
        /\ \A u \in Users : Len(requests'[u]) = calls'[u].search
        /\ TotalRequests' = TotalSearches' ]_vars

C1_Witness ==
    /\ calls[1].search = 2
    /\ Len(requests[1]) = 2
    /\ calls[2].search = 1
    /\ calls[2].logout = 1

\* C2: the payload of every request has exactly the keys province, city,
\* district, latitude, longitude, each with its fixed literal value, whatever
\* came before and whichever user sent it.
C2_PayloadFixed ==
    \A u \in Users : \A i \in 1..Len(requests[u]) :
        LET d == requests[u][i].data
        IN  /\ DOMAIN d = {"province", "city", "district", "latitude", "longitude"}
            /\ Cardinality(DOMAIN d) = 5
            /\ d.province = <<27827, 21271, 30465>>
            /\ d.city = <<30707, 23478, 24196, 24066>>
            /\ d.district = <<26725, 35199, 21306>>
            /\ d.latitude = 38021019
            /\ d.longitude = 114435741

C2_Witness ==
    /\ Len(requests[1]) = 2
    /\ Len(requests[2]) = 1
    /\ outcome[1].kind = "raised"

\* C3: min_wait <= max_wait always, with min_wait = 1000 and max_wait = 10000
\* (integers, milliseconds); so a delay within the bounds exists, and every
\* delay the harness chose lies between 1000 and 10000.
C3_WaitBounds ==
    /\ locust.min_wait \in Nat
    /\ locust.max_wait \in Nat
    /\ locust.min_wait <= locust.max_wait
    /\ locust.min_wait = 1000
    /\ locust.max_wait = 10000
    /\ WaitTimes(locust) # {}
    /\ \A u \in Users :
          /\ pc[u] = "wait" => WaitTimes(locust) # {}
          /\ lastWait[u] # 0 => (1000 <= lastWait[u] /\ lastWait[u] <= 10000)

C3_Witness ==
    /\ lastWait[1] = 1000
    /\ lastWait[2] > 1000
    /\ pc[1] = "ready"
    /\ calls[1].search = 1

\* C4: host and path are non-empty and equal to the fixed constants, and
\* every request goes by POST to
\* https://www.video110.cn:8030/skynet/api/domain/search unless the command
\* line overrides the host.
C4_HostAndPath ==
    /\ locust.host # ""
    /\ locust.host = "https://www.video110.cn:8030"
    /\ \A u \in Users : \A i \in 1..Len(requests[u]) :
          LET r == requests[u][i]
          IN  /\ r.path # ""
              /\ r.path = "/skynet/api/domain/search"
              /\ r.method = "POST"
              /\ cmdHost = NoHost =>
                    r.url = "https://www.video110.cn:8030/skynet/api/domain/search"

C4_Witness ==
    /\ cmdHost = NoHost
    /\ Len(requests[1]) = 2
    /\ Len(requests[2]) = 2

\* C5: no method (on_start, login, search, on_stop, logout), called in any
\* order and any number of times for any user, changes host, min_wait,
\* max_wait, task_set, the task weights, or the path and payload that the
\* requests carry.
C5_DescriptorFrame ==
    [][ /\ locust' = locust
        /\ taskset' = taskset
        /\ cmdHost' = cmdHost
        /\ locust'.host = FixedHost
        /\ taskset'.tasks = [search |-> 10]
        /\ \A u \in Users :
              Searched(u) =>
                 \A v \in Users : \A i \in 1..Len(requests[v]) :
                    LET r == requests'[u][Len(requests'[u])]
                    IN  /\ r.path = requests[v][i].path
                        /\ r.data = requests[v][i].data ]_vars

C5_Witness ==
    /\ calls[1].search = 1
    /\ calls[1].logout = 1
    /\ calls[1].on_stop = 0
    /\ calls[2].on_start = 1
    /\ calls[2].login = 1
    /\ calls[2].on_stop = 1
    /\ calls[2].logout = 1
    /\ Len(requests[1]) = 1
    /\ locust = SkynetSearchUser

\* C6: the hooks are stubs: a step that runs on_start (with login) or on_stop
\* (with logout) issues no request, changes none of the program's data, and
\* ends normally with None; the requests are the same before and after.
HookRan(u) ==
    /\ \/ calls'[u].on_start > calls[u].on_start
       \/ calls'[u].on_stop > calls[u].on_stop
    /\ calls'[u].search = calls[u].search

C6_HooksAreStubs ==
    [][ \A u \in Users :
           HookRan(u) =>
              /\ requests' = requests
              /\ TotalRequests' = TotalRequests
              /\ outcome' = outcome
              /\ locust' = locust
              /\ taskset' = taskset
              /\ ret'[u] = None
              /\ ret'[u].kind # "raised" ]_vars

C6_Witness ==
    \E u \in Users :
        /\ pc[u] = "stopped"
        /\ calls[u].on_start = 1
        /\ calls[u].on_stop = 1
        /\ Len(requests[u]) = 2
        /\ outcome[u].kind = "raised"
        /\ ret[u] = None

\* C7 as stated: when the request call fails, search does not retry, changes
\* nothing, and hands the outcome of the call (the returned response or the
\* raised error) to the harness unchanged.
C7_Original ==
    [][ \A u \in Users :
           (Searched(u) /\ Failed(outcome'[u])) =>
              /\ Len(requests'[u]) = Len(requests[u]) + 1
              /\ locust' = locust
              /\ taskset' = taskset
              /\ ret'[u] = outcome'[u] ]_vars

\* C7 amended: when the request call fails, search does not retry and changes
\* nothing; a raised error reaches the harness unchanged, while a returned
\* response (a non-2xx one included) is dropped and search ends with None.
C7_NoCatchNoRetry ==
    [][ \A u \in Users :
           (Searched(u) /\ Failed(outcome'[u])) =>
              /\ Len(requests'[u]) = Len(requests[u]) + 1
              /\ \A v \in Users \ {u} : requests'[v] = requests[v]
              /\ locust' = locust
              /\ taskset' = taskset
              /\ outcome'[u].kind = "raised" => ret'[u] = outcome'[u]
              /\ outcome'[u].kind = "response" => ret'[u] = None ]_vars

C7_Witness ==
    /\ pc[1] = "wait"
    /\ outcome[1].kind = "raised"
    /\ ret[1] = outcome[1]
    /\ pc[2] = "wait"
    /\ outcome[2] = [kind |-> "response", status |-> 500]
    /\ ret[2] = None

\* C8: SkynetSearchUser's task_set is SkynetSearchTasks, whose weighted tasks
\* are exactly search with weight 10; there is an on_start and an on_stop
\* hook, a host and the two wait times; so every task the harness selects
\* is search.
C8_HarnessShape ==
    /\ locust.task_set = "SkynetSearchTasks"
    /\ taskset.name = locust.task_set
    /\ DOMAIN taskset.tasks = {"search"}
    /\ taskset.tasks["search"] = 10
    /\ TaskChoices(taskset) = {"search"}
    /\ {"on_start", "on_stop"} \subseteq taskset.methods
    /\ {"task_set", "host", "min_wait", "max_wait"} \subseteq DOMAIN locust
    /\ \A u \in Users :
          /\ lastTask[u] \in {"none", "search"}
          /\ pc[u] = "wait" => lastTask[u] = "search"
          /\ calls[u].search > 0 => lastTask[u] = "search"

C8_Witness ==
    /\ lastTask[1] = "search"
    /\ lastTask[2] = "search"
    /\ calls[1].search = 2
    /\ pc[2] = "wait"

\* C9: under the harness's life cycle, login runs exactly once per user and
\* before the user's first search, logout exactly once and after the last
\* search; each on_start calls login once and never logout, each on_stop
\* calls logout once and never login.
C9_LoginLogoutOrder ==
    [][ \A u \in Users :
           /\ Searched(u) =>
                 (calls[u].login = 1 /\ calls[u].logout = 0 /\ calls'[u].logout = 0)
           /\ calls'[u].on_start = calls[u].on_start + 1 =>
                 /\ calls'[u].login = calls[u].login + 1
                 /\ calls'[u].logout = calls[u].logout
                 /\ calls[u].search = 0
           /\ calls'[u].on_stop = calls[u].on_stop + 1 =>
                 /\ calls'[u].logout = calls[u].logout + 1
                 /\ calls'[u].login = calls[u].login
           /\ calls'[u].logout > 0 => calls'[u].search = calls[u].search
           /\ pc'[u] # "new" => (calls'[u].login = 1 /\ calls'[u].on_start = 1)
           /\ pc'[u] = "stopped" => (calls'[u].logout = 1 /\ calls'[u].on_stop = 1)
           /\ pc'[u] # "stopped" => calls'[u].logout = 0 ]_vars

C9_Witness ==
    \E u \in Users :
        /\ pc[u] = "stopped"
        /\ calls[u].search = 2
        /\ calls[u].login = 1
        /\ calls[u].logout = 1

\* C10: whatever the interleaving of the users, all requests have the same
\* method, path and payload, so the requests issued as a multiset are that
\* one request as many times as search was invoked.
C10_Indistinguishable ==
    /\ \A u \in Users : \A v \in Users :
          \A i \in 1..Len(requests[u]) : \A j \in 1..Len(requests[v]) :
             /\ requests[u][i].method = requests[v][j].method
             /\ requests[u][i].path = requests[v][j].path
             /\ requests[u][i].data = requests[v][j].data
    /\ TotalRequests = TotalSearches

C10_Witness ==
    /\ Len(requests[1]) = 2
    /\ Len(requests[2]) = 2
    /\ pc[1] = "wait"
    /\ pc[2] = "ready"

=============================================================================
